---- MODULE Spec2Model ----
(***************************************************************************)
(* A model of src/src/pgslam.cc: the pose algebra (Pose2D), the laser scan *)
(* container with its lazy world cache (LaserScan), the outlier trimming   *)
(* of the ICP matcher, and the SLAM front-end (Slam) with its optional     *)
(* pose-graph adapter (GraphSlam).                                         *)
(*                                                                         *)
(* Numbers.  The program computes in double.  The model computes in exact  *)
(* integers on a grid on which every operation of the program is exact:    *)
(*   - an angle is a whole number of quarter turns, so M_PI is 2 and a     *)
(*     rotation maps grid points to grid points;                           *)
(*   - a length is a whole number of twentieths of a metre (0.05 m), so  *)
(*     the default thresholds 0.4 m and 0.9 m are 8 and 18;                *)
(*   - sqrt(u) < t is decided as t > 0 /\ u < t*t.                         *)
(***************************************************************************)
EXTENDS Integers, Sequences, FiniteSets, TLC

VARIABLES
  \* ---- Pose2D algebra (two operand poses and the last operation's result)
  pa, pb, pres,
  \* ---- Slam
  pose_, scans_, keyscan_threshold_, factor_threshold_,
  pose_update_callback, map_update_callback,
  use_isam,        \* the build: TRUE when compiled with USE_ISAM
  graph_slam_,     \* GraphSlam: pose_nodes_ and the factors held by isam
  call,            \* what the last UpdatePoseWithLaserScan call did
  nevents,         \* how many calls the Slam object has been given
  \* ---- one ICP iteration's outlier trimming
  tail,
  \* ---- one LaserScan object and the last value an accessor returned
  ls, ls_ret

poseVars == <<pa, pb, pres>>
slamVars == <<pose_, scans_, keyscan_threshold_, factor_threshold_,
              pose_update_callback, map_update_callback, use_isam,
              graph_slam_, call, nevents>>
tailVars == <<tail>>
scanVars == <<ls, ls_ret>>
vars == <<pa, pb, pres, pose_, scans_, keyscan_threshold_, factor_threshold_,
          pose_update_callback, map_update_callback, use_isam, graph_slam_,
          call, nevents, tail, ls, ls_ret>>

----------------------------------------------------------------------------
(* Pose2D                                                                  *)

\* M_PI in quarter turns.
M_PI == 2

\* Coordinates and raw angles handed to the Pose2D operations.
MaxCoord == 1
MaxThetaIn == 6

Abs(n) == IF n < 0 THEN -n ELSE n

\* cos and sin of a whole number of quarter turns.
Cos(theta) == CASE theta % 4 = 0 -> 1 [] theta % 4 = 1 -> 0
                [] theta % 4 = 2 -> -1 [] OTHER -> 0
Sin(theta) == CASE theta % 4 = 0 -> 0 [] theta % 4 = 1 -> 1
                [] theta % 4 = 2 -> 0 [] OTHER -> -1

Vec(x, y) == [x |-> x, y |-> y]

\* Eigen::Rotation2D<double> rot(theta); rot * v
Rotate(theta, v) == Vec(Cos(theta) * v.x - Sin(theta) * v.y,
                        Sin(theta) * v.x + Cos(theta) * v.y)

\* while (theta_ < -M_PI) theta_ += 2 * M_PI;
RECURSIVE WrapUp(_)
WrapUp(theta) == IF theta < -M_PI THEN WrapUp(theta + 2 * M_PI) ELSE theta

\* while (theta_ > M_PI) theta_ -= 2 * M_PI;
RECURSIVE WrapDown(_)
WrapDown(theta) == IF theta > M_PI THEN WrapDown(theta - 2 * M_PI) ELSE theta

\* Pose2D::Pose2D()
Pose2D_default == [x |-> 0, y |-> 0, theta |-> 0]

\* Pose2D::Pose2D(double x, double y, double theta)
Pose2D(x, y, theta) == [x |-> x, y |-> y, theta |-> WrapDown(WrapUp(theta))]

\* Pose2D::set_theta
Pose2D_set_theta(p, theta) == [p EXCEPT !.theta = WrapDown(WrapUp(theta))]

\* Pose2D::pos
Pose2D_pos(p) == Vec(p.x, p.y)

\* A plausible slip in operator+: the right operand's translation is added
\* without being rotated into the left operand's frame.
Pose2D_plus_unrotated(a, p) == Pose2D(a.x + p.x, a.y + p.y, a.theta + p.theta)

\* Pose2D::operator+
Pose2D_plus(a, p) ==
  LET v1 == Vec(a.x, a.y)
      v2 == Rotate(a.theta, Vec(p.x, p.y))
  IN  Pose2D(v1.x + v2.x, v1.y + v2.y, a.theta + p.theta)

\* Pose2D::inverse
Pose2D_inverse(a) ==
  LET v == Rotate(-a.theta, Vec(-a.x, -a.y))
  IN  Pose2D(v.x, v.y, -a.theta)

\* Pose2D::operator-   (a - p)
Pose2D_minus(a, p) == Pose2D_plus(Pose2D_inverse(p), a)

NoResult == [op |-> "none", theta_in |-> 0, val |-> Pose2D_default]

----------------------------------------------------------------------------
(* The Pose2D operations as a state machine: two operand poses pa and pb,  *)
(* constructed one after the other, and pres, the result of the last       *)
(* operation applied to them.                                              *)

CoordIn == -MaxCoord .. MaxCoord
ThetaIn == -MaxThetaIn .. MaxThetaIn

Result(op, theta_in, val) == [op |-> op, theta_in |-> theta_in, val |-> val]

\* a = Pose2D(x, y, theta)
ConstructA(x, y, theta) ==
  /\ pres.op = "none"
  /\ pa' = Pose2D(x, y, theta)
  /\ pres' = Result("ctor_a", theta, pa')
  /\ UNCHANGED pb

\* b = Pose2D(x, y, theta)
ConstructB(x, y, theta) ==
  /\ pres.op = "ctor_a"
  /\ pb' = Pose2D(x, y, theta)
  /\ pres' = Result("ctor_b", theta, pb')
  /\ UNCHANGED pa

\* a.set_theta(theta)
SetThetaA(theta) ==
  /\ pa' = Pose2D_set_theta(pa, theta)
  /\ pres' = Result("set_theta", theta, pa')
  /\ UNCHANGED pb

\* a + b
Plus ==
  /\ pres' = Result("plus", 0, Pose2D_plus(pa, pb))
  /\ UNCHANGED <<pa, pb>>

\* a.inverse()
Inverse ==
  /\ pres' = Result("inverse", 0, Pose2D_inverse(pa))
  /\ UNCHANGED <<pa, pb>>

\* a - b
Minus ==
  /\ pres' = Result("minus", 0, Pose2D_minus(pa, pb))
  /\ UNCHANGED <<pa, pb>>

\* (a - b) + b, applied to the difference just computed
MinusThenPlus ==
  /\ pres.op = "minus"
  /\ pres' = Result("minus_plus", 0, Pose2D_plus(pres.val, pb))
  /\ UNCHANGED <<pa, pb>>

\* b + (a - b), applied to the difference just computed
PlusOfMinus ==
  /\ pres.op = "minus"
  /\ pres' = Result("plus_minus", 0, Pose2D_plus(pb, pres.val))
  /\ UNCHANGED <<pa, pb>>

----------------------------------------------------------------------------
(* Echo and LaserScan                                                      *)

\* A member or local the code has not assigned yet holds no definite value.
Indeterminate == "indeterminate"

\* LaserScan::match_threshold_ = 0.1 and dist_threshold_ = 1.0, in 0.05 m
MatchThreshold == 2
DistThreshold == 20

\* Echo::Echo
Echo(range, angle, intensity, time_stamp) ==
  [range_ |-> range, angle_ |-> angle, intensity_ |-> intensity,
   time_stamp_ |-> time_stamp]

\* Echo::get_point
Echo_get_point(e) == Vec(e.range_ * Cos(e.angle_), e.range_ * Sin(e.angle_))

\* LaserScan::LaserScan(std::vector<Echo> echos): pose_ is default
\* constructed, points_world_ is empty, the bounding box is not assigned.
LaserScan_ctor(echos) ==
  [points_self_ |-> [i \in 1..Len(echos) |-> Echo_get_point(echos[i])],
   pose_ |-> Pose2D_default,
   points_world_ |-> <<>>,
   world_transformed_flag_ |-> FALSE,
   max_x_ |-> Indeterminate, min_x_ |-> Indeterminate,
   max_y_ |-> Indeterminate, min_y_ |-> Indeterminate,
   match_threshold_ |-> MatchThreshold,
   dist_threshold_ |-> DistThreshold]

\* LaserScan::LaserScan(std::vector<Echo> echos, Pose2D pose)
LaserScan_ctor_pose(echos, pose) ==
  [LaserScan_ctor(echos) EXCEPT !.pose_ = pose]

\* LaserScan::get_pose
LaserScan_get_pose(s) == s.pose_

\* A plausible slip in set_pose: the cache is not invalidated.
LaserScan_set_pose_keeps_cache(s, pose) == [s EXCEPT !.pose_ = pose]

\* LaserScan::set_pose
LaserScan_set_pose(s, pose) ==
  [s EXCEPT !.pose_ = pose, !.world_transformed_flag_ = FALSE]

\* LaserScan::transform
LaserScan_transform(v, pose) ==
  LET move == Vec(pose.x, pose.y)
  IN  [i \in 1..Len(v) |->
         LET r == Rotate(pose.theta, v[i]) IN Vec(r.x + move.x, r.y + move.y)]

\* The loop of LaserScan::UpdateToWorld from point i on; w is the object
\* with the points pushed and the bounding box grown so far.
RECURSIVE UpdateToWorld_loop(_, _)
UpdateToWorld_loop(w, i) ==
  IF i > Len(w.points_self_) THEN w
  ELSE LET r == Rotate(w.pose_.theta, w.points_self_[i])
           move == Pose2D_pos(w.pose_)
           p == Vec(r.x + move.x, r.y + move.y)
       IN  UpdateToWorld_loop(
             [w EXCEPT !.points_world_ = Append(@, p),
                       !.max_x_ = IF p.x > @ THEN p.x ELSE @,
                       !.min_x_ = IF p.x < @ THEN p.x ELSE @,
                       !.max_y_ = IF p.y > @ THEN p.y ELSE @,
                       !.min_y_ = IF p.y < @ THEN p.y ELSE @],
             i + 1)

\* LaserScan::UpdateToWorld
LaserScan_UpdateToWorld(s) ==
  IF s.world_transformed_flag_ THEN s
  ELSE [UpdateToWorld_loop(
          [s EXCEPT !.points_world_ = <<>>,
                    !.max_x_ = 0, !.min_x_ = 0, !.max_y_ = 0, !.min_y_ = 0],
          1)
        EXCEPT !.world_transformed_flag_ = TRUE]

----------------------------------------------------------------------------
(* One LaserScan object, ls, under its public operations.  ls_ret is the   *)
(* value the last accessor returned.                                       *)

ScanMaxCoord == 1
MaxEchos == 2

\* The poses a scan is given, and the echoes it is built from: at range 1,
\* straight ahead or a quarter turn to the left.
ScanPoseIn == {Pose2D(x, y, t) : x \in 0..ScanMaxCoord, y \in 0..ScanMaxCoord,
                                 t \in {0, 1, M_PI}}
EchoIn == {Echo(1, a, 0, 0) : a \in 0..1}
EchosIn == UNION {[1..n -> EchoIn] : n \in 0..MaxEchos}

NoReturn == [op |-> "none", val |-> 0]
Returned(op, val) == [op |-> op, val |-> val]

\* ls.set_pose(pose)
SetPose(pose) ==
  /\ ls' = LaserScan_set_pose(ls, pose)
  /\ ls_ret' = Returned("set_pose", 0)

\* ls.get_pose()
GetPose ==
  /\ ls_ret' = Returned("get_pose", LaserScan_get_pose(ls))
  /\ UNCHANGED ls

\* ls.get_points()
GetPoints ==
  /\ ls' = LaserScan_UpdateToWorld(ls)
  /\ ls_ret' = Returned("get_points", ls'.points_world_)

\* ls.get_max_x_in_world()
GetMaxX ==
  /\ ls' = LaserScan_UpdateToWorld(ls)
  /\ ls_ret' = Returned("get_max_x_in_world", ls'.max_x_)

\* ls.get_min_x_in_world()
GetMinX ==
  /\ ls' = LaserScan_UpdateToWorld(ls)
  /\ ls_ret' = Returned("get_min_x_in_world", ls'.min_x_)

\* ls.get_max_y_in_world()
GetMaxY ==
  /\ ls' = LaserScan_UpdateToWorld(ls)
  /\ ls_ret' = Returned("get_max_y_in_world", ls'.max_y_)

\* ls.get_min_y_in_world()
GetMinY ==
  /\ ls' = LaserScan_UpdateToWorld(ls)
  /\ ls_ret' = Returned("get_min_y_in_world", ls'.min_y_)

----------------------------------------------------------------------------
(* LaserScan::ICP, "disable the farest 10% point" and "calc center".       *)
(*                                                                         *)
(* The step reads, for every point i of the moving scan, the residual      *)
(* (scan[i]-near[i]).norm() and the mask left by the two steps before it.  *)
(* Those steps leave near[i] = scan[i], a residual of 0, at every point    *)
(* they mask out.  Vectors are indexed from 0 in the code and from 1 here: *)
(* code index i is position i+1.                                           *)

\* scan.size() / 10
TrimDivisor == 10

\* max_distance.resize(scan.size() / 10, 0.0); max_index.resize(.., 0);
MaxInit(n) ==
  [max_distance |-> [j \in 1..(n \div TrimDivisor) |-> 0],
   max_index    |-> [j \in 1..(n \div TrimDivisor) |-> 0]]

\* for (size_t j = 1; j < max_distance.size(); j++) { ... } for point i with
\* residual `distance`, from j on; m holds max_distance and max_index.
RECURSIVE Trim_inner(_, _, _, _)
Trim_inner(m, i, distance, j) ==
  LET size == Len(m.max_distance) IN
  IF j >= size THEN m
  ELSE IF distance > m.max_distance[j + 1]
       THEN LET shifted ==
                  [max_distance |->
                     [m.max_distance EXCEPT ![j] = m.max_distance[j + 1]],
                   max_index |->
                     [m.max_index EXCEPT ![j] = m.max_index[j + 1]]]
                placed ==
                  IF j = size - 1
                  THEN [max_distance |->
                          [shifted.max_distance EXCEPT ![j + 1] = distance],
                        max_index |->
                          [shifted.max_index EXCEPT ![j + 1] = i]]
                  ELSE shifted
            IN  Trim_inner(placed, i, distance, j + 1)
       ELSE \* max_distance[j-1] = distance; max_index[j-1] = i; break;
            [max_distance |-> [m.max_distance EXCEPT ![j] = distance],
             max_index    |-> [m.max_index EXCEPT ![j] = i]]

\* for (size_t i = 0; i < scan.size(); i++) { ... } from point i on
RECURSIVE Trim_outer(_, _, _)
Trim_outer(m, residual, i) ==
  IF i >= Len(residual) THEN m
  ELSE Trim_outer(Trim_inner(m, i, residual[i + 1], 1), residual, i + 1)

\* The code indices the step disables:
\* for (size_t i = 1; i < max_index.size(); i++) mask[max_index[i]] = false;
Trim_disabled(residual) ==
  LET m == Trim_outer(MaxInit(Len(residual)), residual, 0)
  IN  {m.max_index[s + 1] : s \in 1..(Len(m.max_index) - 1)}

\* The mask after the step.
Trim_mask(residual, mask) ==
  [k \in 1..Len(mask) |->
     IF (k - 1) \in Trim_disabled(residual) THEN FALSE ELSE mask[k]]

\* "calc center": count is the number of points still in the mask, and
\* count == 0 is the "no valid point" return.
Mask_count(mask) == Cardinality({k \in 1..Len(mask) : mask[k]})

(* The inputs of the step: a moving scan of n points, all of them kept by  *)
(* the earlier steps with residual `base`, but for the points at code      *)
(* indices p and q, which are either masked out already (residual 0) or    *)
(* kept with a residual of their own.                                      *)
MaxResidual == 2
TailSizes == {5, 10, 15, 20, 25, 30}
PointIn == {[kept |-> FALSE, r |-> 0]} \cup
           {[kept |-> TRUE, r |-> r] : r \in 0..MaxResidual}
TailIndexIn(n) == {0, 1, 2, n - 1}

TailInput(n, base, p, ptp, q, ptq) ==
  LET pt(k) == IF k = p + 1 THEN ptp
               ELSE IF k = q + 1 THEN ptq
               ELSE [kept |-> TRUE, r |-> base]
  IN  [residual |-> [k \in 1..n |-> pt(k).r],
       mask     |-> [k \in 1..n |-> pt(k).kept]]

NoTail == [done |-> FALSE, residual |-> <<>>, mask |-> <<>>,
           disabled |-> {}, mask_out |-> <<>>, count |-> 0]

\* The step is handed its input.
TailBegin(n, base, p, ptp, q, ptq) ==
  /\ ~tail.done /\ tail.residual = <<>>
  /\ p < q
  /\ tail' = [NoTail EXCEPT
                !.residual = TailInput(n, base, p, ptp, q, ptq).residual,
                !.mask = TailInput(n, base, p, ptp, q, ptq).mask]

\* The step runs.
TailRun ==
  /\ ~tail.done /\ tail.residual # <<>>
  /\ tail' = [tail EXCEPT
                !.done = TRUE,
                !.disabled = Trim_disabled(tail.residual),
                !.mask_out = Trim_mask(tail.residual, tail.mask),
                !.count = Mask_count(Trim_mask(tail.residual, tail.mask))]

----------------------------------------------------------------------------
(* GraphSlam (compiled with USE_ISAM).  pose_nodes_ is the vector of node  *)
(* pointers; a node is NULL, or holds the value isam keeps for it.  isam   *)
(* gives a node its first value when the first factor on it is added: the  *)
(* prior of a unary factor, or the other end's value composed with the     *)
(* measure of a binary factor.  `created` lists the ids in the order       *)
(* check() allocated them.                                                 *)

NewNode == [null |-> FALSE, init |-> FALSE, value |-> Pose2D_default]

\* GraphSlam::GraphSlam
GraphSlam_ctor ==
  [pose_nodes_ |-> <<>>, slam_nodes |-> {}, factors |-> <<>>, created |-> <<>>]

\* A plausible slip in check(): the vector is grown one slot too far.
GraphSlam_check_overgrow(g, id) ==
  IF id < Len(g.pose_nodes_)
  THEN [g |-> g, ret |-> FALSE]
  ELSE LET size == Len(g.pose_nodes_) IN
       [g |-> [g EXCEPT
                 !.pose_nodes_ = @ \o [i \in 1..(id + 2 - size) |-> NewNode],
                 !.created = @ \o [i \in 1..(id + 2 - size) |-> size + i - 1]],
        ret |-> TRUE]

\* GraphSlam::check
GraphSlam_check(g, id) ==
  IF id < Len(g.pose_nodes_)
  THEN IF g.pose_nodes_[id + 1].null
       THEN [g |-> [g EXCEPT !.pose_nodes_[id + 1] = NewNode,
                             !.created = Append(@, id)],
             ret |-> TRUE]
       ELSE [g |-> g, ret |-> FALSE]
  ELSE LET size == Len(g.pose_nodes_) IN
       [g |-> [g EXCEPT
                 !.pose_nodes_ = @ \o [i \in 1..(id + 1 - size) |-> NewNode],
                 !.created = @ \o [i \in 1..(id + 1 - size) |-> size + i - 1]],
        ret |-> TRUE]

\* if (ret) slam_->add_node(pose_nodes_[id]);   c is what check(id) gave
GraphSlam_add_node(c, id) ==
  IF c.ret THEN [c.g EXCEPT !.slam_nodes = @ \cup {id}] ELSE c.g

\* bool ret = check(id); if (ret) slam_->add_node(pose_nodes_[id]);
GraphSlam_check_add(g, id) == GraphSlam_add_node(GraphSlam_check(g, id), id)

\* if (cov <= 0) cov = 1.0;
GraphSlam_cov(cov) == IF cov <= 0 THEN 1 ELSE cov

\* slam_->add_factor(new isam::Pose2d_Factor(pose_nodes_[node_id], pose,
\* noise)) on the graph g with the node checked
GraphSlam_add_Pose2d_Factor(g, node_id, pose_ros, cov) ==
  [g EXCEPT
     !.factors = Append(@, [nodes |-> <<node_id>>, measure |-> pose_ros,
                            cov |-> cov]),
     !.pose_nodes_[node_id + 1] =
        IF @.init THEN @ ELSE [@ EXCEPT !.init = TRUE, !.value = pose_ros]]

\* GraphSlam::AddPose2dFactor
GraphSlam_AddPose2dFactor(g, node_id, pose_ros, cov) ==
  GraphSlam_add_Pose2d_Factor(GraphSlam_check_add(g, node_id), node_id,
                              pose_ros, GraphSlam_cov(cov))

\* slam_->add_factor(new isam::Pose2d_Pose2d_Factor(pose_nodes_[node_id_ref],
\* pose_nodes_[node_id], pose, noise)) on the graph g with both nodes checked
GraphSlam_add_Pose2d_Pose2d_Factor(g, node_id_ref, node_id, pose_ros, cov) ==
  [g EXCEPT
     !.factors = Append(@, [nodes |-> <<node_id_ref, node_id>>,
                            measure |-> pose_ros, cov |-> cov]),
     !.pose_nodes_[node_id + 1] =
        IF g.pose_nodes_[node_id_ref + 1].init /\ ~@.init
        THEN [@ EXCEPT !.init = TRUE,
                       !.value = Pose2D_plus(
                                   g.pose_nodes_[node_id_ref + 1].value, pose_ros)]
        ELSE @]

\* GraphSlam::AddPose2dPose2dFactor
GraphSlam_AddPose2dPose2dFactor(g, node_id_ref, node_id, pose_ros, cov) ==
  GraphSlam_add_Pose2d_Pose2d_Factor(
    GraphSlam_check_add(GraphSlam_check_add(g, node_id_ref), node_id),
    node_id_ref, node_id, pose_ros, GraphSlam_cov(cov))

\* GraphSlam::Optimization.  The solver is isam's; what it does to the
\* node values is its answer `solved`: the node it moved and by how much.
GraphSlam_Optimization(g, solved) ==
  IF solved.node < Len(g.pose_nodes_) /\ ~g.pose_nodes_[solved.node + 1].null
  THEN [g EXCEPT !.pose_nodes_[solved.node + 1].value =
                    Pose2D_plus(@, solved.shift)]
  ELSE g

\* Pose2D pose; pose.set_x(..); pose.set_y(..); pose.set_theta(..);
GraphSlam_node_pose(v) ==
  Pose2D_set_theta([Pose2D_default EXCEPT !.x = v.x, !.y = v.y], v.theta)

\* GraphSlam::get_nodes, from slot i on
RECURSIVE GraphSlam_get_nodes_loop(_, _)
GraphSlam_get_nodes_loop(g, i) ==
  IF i >= Len(g.pose_nodes_) THEN <<>>
  ELSE IF g.pose_nodes_[i + 1].null THEN GraphSlam_get_nodes_loop(g, i + 1)
  ELSE <<[first |-> i, second |-> GraphSlam_node_pose(g.pose_nodes_[i + 1].value)]>>
       \o GraphSlam_get_nodes_loop(g, i + 1)

\* GraphSlam::get_nodes
GraphSlam_get_nodes(g) == GraphSlam_get_nodes_loop(g, 0)

----------------------------------------------------------------------------
(* LaserScan::ICP.  The matching itself (the kd-tree queries, the masks,   *)
(* the damped update) is arithmetic on the two point clouds; here a call   *)
(* is handed its outcome as `run`:                                         *)
(*   run.stop_at  the iteration in which no point is left in the mask      *)
(*                (ICPIterations when there is none),                      *)
(*   run.moves    how many of the first iterations find the update         *)
(*                Pose2D(move.x(), move.y(), rot) = run.delta; the later   *)
(*                ones find a zero update,                                 *)
(*   run.ratio    match_count / scan.size() of the last iteration.         *)
(* The kd-tree is built over 7 * scan_ref.size() >= 14 points, so the      *)
(* "index == -1" return of an empty tree does not occur.                   *)

\* for (int i = 0; i < 20; i++)
ICPIterations == 20

\* Pose2D pose_delta = Pose2D(move.x(), move.y(), rot); in iteration i
ICP_update(i, run) == IF i < run.moves THEN run.delta ELSE Pose2D(0, 0, 0)

\* pose_delta = (pose.inverse() + pose_delta + pose);
ICP_pose_delta(pose, pose_delta) ==
  Pose2D_plus(Pose2D_plus(Pose2D_inverse(pose), pose_delta), pose)

\* The iterations of ICP from iteration i on, with the estimate `pose`.
RECURSIVE ICP_loop(_, _, _, _)
ICP_loop(i, pose, reference_pose, run) ==
  IF i >= ICPIterations
  THEN [pose |-> pose, ratio_written |-> TRUE, ratio |-> run.ratio]
  ELSE IF run.stop_at = i
  THEN \* count == 0: *ratio = 0.0; return reference_pose;
       [pose |-> reference_pose, ratio_written |-> TRUE, ratio |-> 0]
  ELSE \* pose = pose + pose_delta; and on to the next iteration
       CHOOSE r \in {ICP_loop(i + 1, next, reference_pose, run) :
                       next \in {Pose2D_plus(pose, ICP_pose_delta(
                                                     pose, ICP_update(i, run)))}} :
         TRUE

\* LaserScan::ICP after reference_pose is computed.  ratio_written tells
\* whether *ratio was assigned.
ICP_from(self, scan_, reference_pose, run) ==
  IF Len(self.points_self_) < 2 \/ Len(scan_.points_self_) < 2
  THEN [pose |-> reference_pose, ratio_written |-> FALSE, ratio |-> 0]
  ELSE ICP_loop(0, reference_pose, reference_pose, run)

\* LaserScan::ICP: self.ICP(scan_, &ratio)
LaserScan_ICP(self, scan_, run) ==
  ICP_from(self, scan_, Pose2D_minus(LaserScan_get_pose(scan_), self.pose_), run)

----------------------------------------------------------------------------
(* Slam                                                                    *)

\* Slam::Slam(): 0.4 m and 0.9 m, in units of 0.05 m
DefaultKeyscanThreshold == 8
DefaultFactorThreshold == 18

\* How many calls a run gives the Slam object.
MaxEvents == 5

NoCall == [kind |-> "none", arg |-> 0, pre_pose |-> Pose2D_default,
           pre_scans |-> <<>>, scan_ |-> LaserScan_ctor(<<>>),
           pose_cb |-> <<>>, map_cb |-> <<>>, icp |-> <<>>]

\* Slam::Slam, in the build given
SlamInit(isam) ==
  /\ pose_ = Pose2D_default
  /\ scans_ = <<>>
  /\ keyscan_threshold_ = DefaultKeyscanThreshold
  /\ factor_threshold_ = DefaultFactorThreshold
  /\ pose_update_callback = FALSE
  /\ map_update_callback = FALSE
  /\ use_isam = isam
  /\ graph_slam_ = GraphSlam_ctor
  /\ call = NoCall
  /\ nevents = 0

\* A plausible slip in set_factor_threshold: the other threshold is left.
Slam_set_factor_threshold_only(k, f, factor_threshold) ==
  [keyscan_threshold_ |-> k, factor_threshold_ |-> factor_threshold]

\* Slam::set_keyscan_threshold on thresholds k and f
Slam_set_keyscan_threshold(k, f, keyscan_threshold) ==
  [keyscan_threshold_ |-> keyscan_threshold,
   factor_threshold_ |-> IF keyscan_threshold * 2 > f
                         THEN keyscan_threshold * 2 ELSE f]

\* Slam::set_factor_threshold on thresholds k and f.  factor_threshold is
\* a whole number of 0.1 m, so that factor_threshold_/2 is on the grid.
Slam_set_factor_threshold(k, f, factor_threshold) ==
  [keyscan_threshold_ |-> IF k * 2 > factor_threshold
                          THEN factor_threshold \div 2 ELSE k,
   factor_threshold_ |-> factor_threshold]

\* slam.set_keyscan_threshold(keyscan_threshold)
SetKeyscanThreshold(keyscan_threshold) ==
  \E t \in {Slam_set_keyscan_threshold(keyscan_threshold_, factor_threshold_,
                                      keyscan_threshold)} :
      /\ keyscan_threshold_' = t.keyscan_threshold_
      /\ factor_threshold_' = t.factor_threshold_
      /\ call' = [NoCall EXCEPT !.kind = "set_keyscan_threshold",
                                 !.arg = keyscan_threshold]
      /\ nevents < MaxEvents
      /\ nevents' = nevents + 1
      /\ UNCHANGED <<pose_, scans_, pose_update_callback, map_update_callback,
                     use_isam, graph_slam_>>

\* slam.set_factor_threshold(factor_threshold)
SetFactorThreshold(factor_threshold) ==
  \E t \in {Slam_set_factor_threshold(keyscan_threshold_, factor_threshold_,
                                     factor_threshold)} :
      /\ keyscan_threshold_' = t.keyscan_threshold_
      /\ factor_threshold_' = t.factor_threshold_
      /\ call' = [NoCall EXCEPT !.kind = "set_factor_threshold",
                                 !.arg = factor_threshold]
      /\ nevents < MaxEvents
      /\ nevents' = nevents + 1
      /\ UNCHANGED <<pose_, scans_, pose_update_callback, map_update_callback,
                     use_isam, graph_slam_>>

\* Slam::RegisterPoseUpdateCallback(f); f holds a function or is empty
RegisterPoseUpdateCallback(f) ==
  /\ nevents < MaxEvents
  /\ nevents' = nevents + 1
  /\ pose_update_callback' = f
  /\ call' = NoCall
  /\ UNCHANGED <<pose_, scans_, keyscan_threshold_, factor_threshold_,
                 map_update_callback, use_isam, graph_slam_>>

\* Slam::RegisterMapUpdateCallback(f)
RegisterMapUpdateCallback(f) ==
  /\ nevents < MaxEvents
  /\ nevents' = nevents + 1
  /\ map_update_callback' = f
  /\ call' = NoCall
  /\ UNCHANGED <<pose_, scans_, keyscan_threshold_, factor_threshold_,
                 pose_update_callback, use_isam, graph_slam_>>

\* Slam::EncoderToPose2D for left = right (theta == 0, secant = arc)
Slam_EncoderToPose2D_straight(left) == Pose2D(left, 0, 0)

\* Slam::UpdatePoseWithPose
UpdatePoseWithPose(pose) ==
  /\ nevents < MaxEvents
  /\ nevents' = nevents + 1
  /\ pose_' = Pose2D_plus(pose_, pose)
  /\ call' = NoCall
  /\ UNCHANGED <<scans_, keyscan_threshold_, factor_threshold_,
                 pose_update_callback, map_update_callback, use_isam,
                 graph_slam_>>

\* Slam::UpdatePoseWithEncoder(left, left, tread)
UpdatePoseWithEncoder(left) ==
  /\ nevents < MaxEvents
  /\ nevents' = nevents + 1
  /\ pose_' = Pose2D_plus(pose_, Slam_EncoderToPose2D_straight(left))
  /\ call' = [NoCall EXCEPT
                !.kind = "encoder",
                !.pose_cb = IF pose_update_callback THEN <<pose_'>> ELSE <<>>]
  /\ UNCHANGED <<scans_, keyscan_threshold_, factor_threshold_,
                 pose_update_callback, map_update_callback, use_isam,
                 graph_slam_>>

(* What the last call did, for an observer: its kind, the argument of a    *)
(* setter, the pose and the keyscans before a scan call.                   *)
(*                                                                         *)
(* Slam::UpdatePoseWithLaserScan.  The call works on w, the members it    *)
(* writes and its locals, and on the record of what an observer sees: the  *)
(* poses handed to the pose-update callback (pose_cb), the number of       *)
(* keyscans held at each map-update callback (map_cb), the ICP calls made  *)
(* (icp).                                                                  *)

Square(n) == n * n

\* (a.pos() - b.pos()).norm(), squared
DistSq(a, b) == (a.x - b.x) * (a.x - b.x) + (a.y - b.y) * (a.y - b.y)

\* sqrt(sq) < t
NormLess(sq, t) == t > 0 /\ sq < t * t

\* The composite distance of lines 534-542 between a keyscan pose and the
\* scan's pose, squared and times 9: delta_theta is in quarter turns, and
\* a quarter turn times keyscan_threshold_ / (M_PI_4 * 3.0) is 2/3 of the
\* threshold.
KeyscanDistSq9(keyscan_pose, scan_pose, keyscan_threshold) ==
  9 * DistSq(keyscan_pose, scan_pose)
  + 4 * Square(WrapDown(WrapUp(Abs(keyscan_pose.theta - scan_pose.theta))))
      * Square(keyscan_threshold)

\* min_dist < keyscan_threshold_
KeyscanNear(dist_sq9, keyscan_threshold) ==
  keyscan_threshold > 0 /\ dist_sq9 < 9 * keyscan_threshold * keyscan_threshold

\* if (dist < min_dist) { min_dist = dist; closest_scan = &(scans_[i]); }
Slam_closer(i, dist, best) ==
  IF i = 0 \/ dist < best.min_dist THEN [closest |-> i, min_dist |-> dist]
  ELSE best

\* "search for the closest scan", from scan i on: closest is the index of
\* closest_scan and min_dist its distance (DBL_MAX before scan 0, which
\* every distance is below).
RECURSIVE Slam_closest_loop(_, _, _, _, _)
Slam_closest_loop(scans, scan, keyscan_threshold, i, best) ==
  IF i >= Len(scans) THEN best
  ELSE Slam_closest_loop(scans, scan, keyscan_threshold, i + 1,
         Slam_closer(i, KeyscanDistSq9(LaserScan_get_pose(scans[i + 1]),
                                       LaserScan_get_pose(scan),
                                       keyscan_threshold),
                     best))

Slam_closest(scans, scan, keyscan_threshold) ==
  Slam_closest_loop(scans, scan, keyscan_threshold, 0,
                    [closest |-> 0, min_dist |-> 0])

\* if (pose_update_callback) pose_update_callback(pose_);
FirePoseUpdate(w) ==
  IF pose_update_callback THEN [w EXCEPT !.pose_cb = Append(@, w.pose_)] ELSE w

\* if (map_update_callback) map_update_callback();
FireMapUpdate(w) ==
  IF map_update_callback THEN [w EXCEPT !.map_cb = Append(@, Len(w.scans_))]
  ELSE w

IcpRecord(self, scan, run, r) ==
  [self_pose |-> self.pose_, scan_pose |-> scan.pose_,
   self_size |-> Len(self.points_self_), scan_size |-> Len(scan.points_self_),
   run |-> run, pose |-> r.pose, ratio_written |-> r.ratio_written,
   ratio |-> r.ratio]

\* "first scan" (lines 518-528)
Slam_first_scan(w) ==
  FireMapUpdate(
    [w EXCEPT !.kind = "first",
              !.scans_ = Append(@, w.scan),
              !.graph_slam_ = IF use_isam
                              THEN GraphSlam_AddPose2dFactor(@, 0, w.pose_, 1)
                              ELSE @])

\* "update pose" (lines 551-554)
Slam_relocalise_by(w, closest_scan, run, r) ==
  [w EXCEPT !.kind = "relocalise",
            !.icp = Append(@, IcpRecord(closest_scan, w.scan, run, r)),
            !.pose_ = Pose2D_plus(LaserScan_get_pose(closest_scan), r.pose)]

Slam_relocalise(w, closest, run) ==
  Slam_relocalise_by(w, w.scans_[closest + 1], run,
                     LaserScan_ICP(w.scans_[closest + 1], w.scan, run))

\* Lines 562-565 for keyscan i, r being what ICP returned.
Slam_add_factor(w, i, run, garbage, r) ==
  [w EXCEPT
     !.constrain_count = @ + 1,
     !.icp = Append(@, IcpRecord(w.scans_[i + 1], w.scan, run, r)),
     !.graph_slam_ = GraphSlam_AddPose2dPose2dFactor(
                       @, i, Len(w.scans_), r.pose,
                       IF r.ratio_written THEN r.ratio ELSE garbage)]

\* The loop of lines 559-569, from keyscan i on.  `ratio` is a local of
\* the loop body that ICP may leave unwritten; what is then read from it
\* is `garbage`.
RECURSIVE Slam_factor_loop(_, _, _, _)
Slam_factor_loop(w, i, runs, garbage) ==
  IF i >= Len(w.scans_) THEN w
  ELSE IF NormLess(DistSq(w.pose_, LaserScan_get_pose(w.scans_[i + 1])),
                   factor_threshold_)
  THEN Slam_factor_loop(
         FirePoseUpdate(
           Slam_add_factor(w, i, runs[i + 1], garbage,
                           LaserScan_ICP(w.scans_[i + 1], w.scan, runs[i + 1]))),
         i + 1, runs, garbage)
  ELSE Slam_factor_loop(w, i + 1, runs, garbage)

\* "update pose of node" (lines 576-580)
Slam_read_back_old(w, node) ==
  IF node.first < Len(w.scans_)
  THEN [w EXCEPT !.scans_[node.first + 1] = LaserScan_set_pose(@, node.second)]
  ELSE w

\* "add the new scan with pose" (lines 582-586)
Slam_read_back_new(w, node) ==
  IF node.first = Len(w.scans_)
  THEN [w EXCEPT !.pose_ = node.second,
                 !.scan = LaserScan_set_pose(@, node.second),
                 !.scans_ = Append(@, LaserScan_set_pose(w.scan, node.second))]
  ELSE w

\* The loop of lines 574-587 over nodes, from entry i on.
RECURSIVE Slam_read_back_loop(_, _, _)
Slam_read_back_loop(w, nodes, i) ==
  IF i >= Len(nodes) THEN w
  ELSE Slam_read_back_loop(
         Slam_read_back_new(Slam_read_back_old(w, nodes[i + 1]), nodes[i + 1]),
         nodes, i + 1)

\* if (constrain_count > 1) graph_slam_.Optimization();
Slam_optimize(w, solved) ==
  IF w.constrain_count > 1
  THEN [w EXCEPT !.graph_slam_ = GraphSlam_Optimization(@, solved)]
  ELSE w

\* auto nodes = graph_slam_.get_nodes(); and the loop over them
Slam_read_back(w) ==
  Slam_read_back_loop(w, GraphSlam_get_nodes(w.graph_slam_), 0)

\* "add key scan" (lines 556-595)
Slam_add_key_scan(w, runs, garbage, solved) ==
  FireMapUpdate(
    IF use_isam
    THEN Slam_read_back(
           Slam_optimize(
             Slam_factor_loop([w EXCEPT !.kind = "admit"], 0, runs, garbage),
             solved))
    ELSE [w EXCEPT !.kind = "admit", !.scans_ = Append(@, w.scan)])

\* Lines 550-598, c being the closest keyscan and its distance.
Slam_branch(w, c, runs, garbage, solved) ==
  FirePoseUpdate(
    IF KeyscanNear(c.min_dist, keyscan_threshold_)
    THEN Slam_relocalise(w, c.closest, runs[c.closest + 1])
    ELSE Slam_add_key_scan(w, runs, garbage, solved))

\* Lines 517-599 on w, the members and the stamped scan.  The first scan
\* returns at line 527, before the callback of line 597.
Slam_update(w, runs, garbage, solved) ==
  IF w.scans_ = <<>>
  THEN Slam_first_scan(w)
  ELSE Slam_branch(w, Slam_closest(w.scans_, w.scan, keyscan_threshold_),
                   runs, garbage, solved)

\* Slam::UpdatePoseWithLaserScan(scan_), the whole call
Slam_UpdatePoseWithLaserScan(scan_, runs, garbage, solved) ==
  Slam_update(
    [kind |-> "none", pose_ |-> pose_, scans_ |-> scans_,
     graph_slam_ |-> graph_slam_, scan |-> LaserScan_set_pose(scan_, pose_),
     constrain_count |-> 0, pose_cb |-> <<>>, map_cb |-> <<>>, icp |-> <<>>],
    runs, garbage, solved)

\* What the call's outcome depends on, besides the scan: one ICP outcome
\* per keyscan it is matched against, the garbage an unwritten local
\* holds, the solver's answer.
ShiftX == Pose2D(1, 0, 0)
ICPRunIn ==
  {[stop_at |-> ICPIterations, moves |-> 0, delta |-> ShiftX, ratio |-> 1],
   [stop_at |-> ICPIterations, moves |-> 1, delta |-> ShiftX, ratio |-> 0],
   [stop_at |-> 1, moves |-> 1, delta |-> ShiftX, ratio |-> 1]}
GarbageIn == {-1, 2}
SolvedIn(n) == {[node |-> 0, shift |-> Pose2D(0, 0, 0)], [node |-> 0, shift |-> ShiftX],
                [node |-> n, shift |-> ShiftX]}

\* The scans fed: one echo (too few points to match) or two.
SlamScanIn == {LaserScan_ctor(<<Echo(1, 0, 0, 0)>>),
               LaserScan_ctor(<<Echo(1, 0, 0, 0), Echo(1, 1, 0, 0)>>)}

UpdatePoseWithLaserScan(scan_, runs, garbage, solved) ==
  /\ nevents < MaxEvents
  /\ nevents' = nevents + 1
  /\ \E w \in {Slam_UpdatePoseWithLaserScan(scan_, runs, garbage, solved)} :
       /\ pose_' = w.pose_
       /\ scans_' = w.scans_
       /\ graph_slam_' = w.graph_slam_
       /\ call' = [kind |-> w.kind, arg |-> 0, pre_pose |-> pose_,
                   pre_scans |-> scans_,
                   scan_ |-> scan_, pose_cb |-> w.pose_cb, map_cb |-> w.map_cb,
                   icp |-> w.icp]
  /\ UNCHANGED <<keyscan_threshold_, factor_threshold_, pose_update_callback,
                 map_update_callback, use_isam>>

\* What a call in the present state reads of those inputs; the inputs it
\* does not read are held at one value.  IsNear: the call relocalises.
\* InFactorRange(i): the USE_ISAM admit adds a factor to keyscan i.
\* Matches(scan_, i): ICP of keyscan i with the scan gets past line 184.
IsNear(scan_) ==
  /\ scans_ # <<>>
  /\ KeyscanNear(Slam_closest(scans_, LaserScan_set_pose(scan_, pose_),
                              keyscan_threshold_).min_dist,
                 keyscan_threshold_)
ReadsGraph(scan_) == use_isam /\ scans_ # <<>> /\ ~IsNear(scan_)
InFactorRange(scan_, i) ==
  /\ ReadsGraph(scan_)
  /\ NormLess(DistSq(pose_, LaserScan_get_pose(scans_[i + 1])), factor_threshold_)
Matches(scan_, i) ==
  Len(scans_[i + 1].points_self_) >= 2 /\ Len(scan_.points_self_) >= 2
RunRead(scan_, i) ==
  /\ Matches(scan_, i)
  /\ IF IsNear(scan_)
     THEN i = Slam_closest(scans_, LaserScan_set_pose(scan_, pose_),
                           keyscan_threshold_).closest
     ELSE InFactorRange(scan_, i)
RunsIn(scan_) ==
  {runs \in [1..Len(scans_) -> ICPRunIn] :
     \A i \in 0..(Len(scans_) - 1) :
       ~RunRead(scan_, i) => runs[i + 1] = CHOOSE r \in ICPRunIn : TRUE}
GarbageRead(scan_) ==
  IF \E i \in 0..(Len(scans_) - 1) : InFactorRange(scan_, i) /\ ~Matches(scan_, i)
  THEN GarbageIn ELSE {CHOOSE x \in GarbageIn : TRUE}
SolvedRead(scan_) ==
  IF Cardinality({i \in 0..(Len(scans_) - 1) : InFactorRange(scan_, i)}) > 1
  THEN SolvedIn(Len(scans_)) ELSE {CHOOSE x \in SolvedIn(0) : TRUE}

\* slam.UpdatePoseWithLaserScan(scan_)
LaserScan ==
  /\ nevents < MaxEvents
  /\ \E scan_ \in SlamScanIn :
       \E runs \in RunsIn(scan_), garbage \in GarbageRead(scan_),
          solved \in SolvedRead(scan_) :
         UpdatePoseWithLaserScan(scan_, runs, garbage, solved)

\* The motions fed: 1 m ahead, half a turn either way; the encoder
\* reports 0.4 m on both wheels.
MoveIn == {Pose2D(20, 0, 0), Pose2D(0, 0, M_PI), Pose2D(0, 0, -M_PI)}
EncoderIn == {8}
SlamKeyscanIn == {4}
SlamFactorIn == {12}


----------------------------------------------------------------------------
(* Specifications.  Each is one part of the program run on its own; the    *)
(* variables of the other parts stay as constructed.                       *)

PoseInit == pa = Pose2D_default /\ pb = Pose2D_default /\ pres = NoResult
TailInit == tail = NoTail
ScanIdle == ls = LaserScan_ctor(<<>>) /\ ls_ret = NoReturn

\* The Pose2D operations.
InitPose == PoseInit /\ SlamInit(FALSE) /\ TailInit /\ ScanIdle
NextPose ==
  \/ \E x \in CoordIn, y \in CoordIn, theta \in ThetaIn : ConstructA(x, y, theta)
  \/ \E x \in CoordIn, y \in CoordIn, theta \in ThetaIn : ConstructB(x, y, theta)
  \/ \E theta \in ThetaIn : SetThetaA(theta)
  \/ Plus
  \/ Inverse
  \/ Minus
  \/ MinusThenPlus
  \/ PlusOfMinus
SpecPose == InitPose /\ [][NextPose /\ UNCHANGED <<slamVars, tailVars, scanVars>>]_vars

\* One LaserScan object: constructed either way, then used.
InitScan ==
  /\ PoseInit /\ SlamInit(FALSE) /\ TailInit
  /\ \E echos \in EchosIn :
       \/ ls = LaserScan_ctor(echos)
       \/ \E pose \in ScanPoseIn : ls = LaserScan_ctor_pose(echos, pose)
  /\ ls_ret = NoReturn
NextScan ==
  \/ \E pose \in ScanPoseIn : SetPose(pose)
  \/ GetPose
  \/ GetPoints
  \/ GetMaxX
  \/ GetMinX
  \/ GetMaxY
  \/ GetMinY
SpecScan == InitScan /\ [][NextScan /\ UNCHANGED <<poseVars, slamVars, tailVars>>]_vars

\* One outlier-trimming step of an ICP iteration.
InitTail == PoseInit /\ SlamInit(FALSE) /\ TailInit /\ ScanIdle
NextTail ==
  \/ \E n \in TailSizes : \E base \in 0..MaxResidual,
        p \in TailIndexIn(n), q \in TailIndexIn(n), ptp \in PointIn, ptq \in PointIn :
         TailBegin(n, base, p, ptp, q, ptq)
  \/ TailRun
SpecTail == InitTail /\ [][NextTail /\ UNCHANGED <<poseVars, slamVars, scanVars>>]_vars

\* The Slam front-end, in either build.
InitSlam ==
  /\ PoseInit /\ TailInit /\ ScanIdle
  /\ \E isam \in BOOLEAN : SlamInit(isam)
NextSlam ==
  \/ \E k \in SlamKeyscanIn : SetKeyscanThreshold(k)
  \/ \E f \in SlamFactorIn : SetFactorThreshold(f)
  \/ \E f \in BOOLEAN : RegisterPoseUpdateCallback(f)
  \/ \E f \in BOOLEAN : RegisterMapUpdateCallback(f)
  \/ \E pose \in MoveIn : UpdatePoseWithPose(pose)
  \/ \E left \in EncoderIn : UpdatePoseWithEncoder(left)
  \/ LaserScan
SpecSlam == InitSlam /\ [][NextSlam /\ UNCHANGED <<poseVars, tailVars, scanVars>>]_vars

\* The two threshold setters on their own.
MaxThreshold == 12
InitThresholds == PoseInit /\ SlamInit(FALSE) /\ TailInit /\ ScanIdle
NextThresholds ==
  \/ \E k \in -2..MaxThreshold : SetKeyscanThreshold(k)
  \/ \E f \in -2..(MaxThreshold + MaxThreshold) : f % 2 = 0 /\ SetFactorThreshold(f)
SpecThresholds ==
  InitThresholds /\ [][NextThresholds /\ UNCHANGED <<poseVars, tailVars, scanVars>>]_vars

----------------------------------------------------------------------------
(* The properties checked.                                                 *)

\* The operations of C1: the constructor, set_theta, operator+, inverse.
ThetaOps == {"ctor_a", "ctor_b", "set_theta", "plus", "inverse"}

\* C1: every Pose2D produced by the constructor, by set_theta, by operator+
\* or by inverse() stores a theta in the half-open interval (-pi, pi], and
\* constructing from theta + 2*pi stores the same theta as constructing
\* from theta, for every theta handed in.
C1_ThetaHalfOpen ==
  /\ pres.op \in ThetaOps => -M_PI < pres.val.theta /\ pres.val.theta <= M_PI
  /\ pres.op \in {"ctor_a", "ctor_b"} =>
       Pose2D(pres.val.x, pres.val.y, pres.theta_in + 2 * M_PI).theta
         = pres.val.theta

\* C2, as stated: for all poses a and b, (a - b) + b equals a.
C2_MinusThenPlusIsA == pres.op = "minus_plus" => pres.val = pa

\* C2, amended: for all poses a and b, b + (a - b) has the translation of a
\* and the angle of a up to a whole turn.
C2_PlusOfMinusIsA ==
  pres.op = "plus_minus" =>
    /\ pres.val.x = pa.x
    /\ pres.val.y = pa.y
    /\ (pres.val.theta - pa.theta) % (2 * M_PI) = 0

\* b + (a - b) was computed for two poses that are both rotated and both
\* translated.
C2_Witness ==
  /\ pres.op = "plus_minus"
  /\ pa.theta = -1 /\ pb.theta = 1
  /\ pa.x = 1 /\ pb.y = -1

\* C3: after any sequence of set_keyscan_threshold and set_factor_threshold
\* calls on a fresh Slam, factor_threshold >= 2 * keyscan_threshold;
\* set_keyscan_threshold(k) leaves keyscan_threshold = k and
\* set_factor_threshold(f) leaves factor_threshold = f.
C3_ThresholdInvariant ==
  /\ factor_threshold_ >= 2 * keyscan_threshold_
  /\ call.kind = "set_keyscan_threshold" => keyscan_threshold_ = call.arg
  /\ call.kind = "set_factor_threshold" => factor_threshold_ = call.arg

\* set_factor_threshold was called with a value below twice the keyscan
\* threshold, and lowered the keyscan threshold.
C3_Witness ==
  /\ call.kind = "set_factor_threshold"
  /\ call.arg = 4
  /\ keyscan_threshold_ = 2

\* The last call was UpdatePoseWithLaserScan.
IsScanCall == call.kind \in {"first", "relocalise", "admit"}

\* Before the last scan call, the current pose was at composite distance
\* below keyscan_threshold of some keyscan.
WasNearSomeKeyscan ==
  \E i \in 1..Len(call.pre_scans) :
    KeyscanNear(KeyscanDistSq9(call.pre_scans[i].pose_, call.pre_pose,
                               keyscan_threshold_),
                keyscan_threshold_)

\* C4: in both builds, UpdatePoseWithLaserScan on an empty Slam leaves one
\* keyscan; a later call within keyscan_threshold of some keyscan leaves
\* the keyscan count unchanged; a later call at keyscan_threshold or more
\* from every keyscan raises the count by exactly one.
C4_KeyscanAdmission ==
  IsScanCall =>
    IF call.pre_scans = <<>> THEN Len(scans_) = 1
    ELSE IF WasNearSomeKeyscan THEN Len(scans_) = Len(call.pre_scans)
    ELSE Len(scans_) = Len(call.pre_scans) + 1

\* C5: every UpdatePoseWithLaserScan call made with a pose-update callback
\* registered invokes it, the last time with the final current pose; the
\* first scan included.
C5_PoseCallbackEveryCall ==
  IsScanCall /\ pose_update_callback =>
    /\ call.pose_cb # <<>>
    /\ call.pose_cb[Len(call.pose_cb)] = pose_

\* C6: with a map-update callback registered, a scan call invokes it if and
\* only if the call appended a keyscan, once, after the append; never in
\* the relocalise branch, never when the keyscan list keeps its length.
C6_MapCallbackIffAppend ==
  IsScanCall /\ map_update_callback =>
    /\ call.map_cb # <<>> <=> Len(scans_) = Len(call.pre_scans) + 1
    /\ Len(call.map_cb) <= 1
    /\ call.map_cb # <<>> => call.map_cb[1] = Len(call.pre_scans) + 1
    /\ call.kind = "relocalise" => call.map_cb = <<>>

\* The ids of the slots of pose_nodes_ that hold a node.
OccupiedIds ==
  {i \in 0..(Len(graph_slam_.pose_nodes_) - 1) : ~graph_slam_.pose_nodes_[i + 1].null}

\* The factors the last call added: one per ICP call of an admit.
AddedFactors ==
  IF call.kind = "admit"
  THEN {Len(graph_slam_.factors) - k : k \in 0..(Len(call.icp) - 1)}
  ELSE {}

\* C7: with the back-end compiled in, the occupied node ids are
\* 0 .. number of keyscans - 1; node ids are handed out in strictly
\* increasing order; every binary factor added while admitting a scan has
\* as its new node id the index at which the scan is then stored.
C7_NodeIdsAreKeyscanIndices ==
  use_isam =>
    /\ OccupiedIds = 0..(Len(scans_) - 1)
    /\ \A k \in 1..(Len(graph_slam_.created) - 1) :
         graph_slam_.created[k] < graph_slam_.created[k + 1]
    /\ \A k \in AddedFactors :
         /\ Len(graph_slam_.factors[k].nodes) = 2
         /\ graph_slam_.factors[k].nodes[2] = Len(call.pre_scans)
         /\ Len(scans_) = Len(call.pre_scans) + 1
         /\ scans_[Len(scans_)].points_self_ = call.scan_.points_self_

\* A third keyscan was admitted with a factor to each of the two before it.
C7_Witness ==
  /\ use_isam
  /\ call.kind = "admit"
  /\ Len(call.icp) = 2
  /\ Len(scans_) = 3

\* An ICP call that had a scan of fewer than two points.
IcpDegenerate(c) == c.self_size < 2 \/ c.scan_size < 2

\* An ICP call in which some iteration had every correspondence masked out.
IcpNoValid(c) == ~IcpDegenerate(c) /\ c.run.stop_at < ICPIterations

\* C8: ICP with a scan of fewer than two points returns other.pose -
\* self.pose and does not write *ratio; ICP with an iteration in which
\* every correspondence is masked out returns other.pose - self.pose with
\* *ratio = 0; a relocalise step that hits either leaves the current pose
\* as it was before the call.
C8_IcpErrorOutcomes ==
  /\ \A k \in 1..Len(call.icp) :
       /\ IcpDegenerate(call.icp[k]) =>
            /\ call.icp[k].pose
                 = Pose2D_minus(call.icp[k].scan_pose, call.icp[k].self_pose)
            /\ ~call.icp[k].ratio_written
       /\ IcpNoValid(call.icp[k]) =>
            /\ call.icp[k].pose
                 = Pose2D_minus(call.icp[k].scan_pose, call.icp[k].self_pose)
            /\ call.icp[k].ratio_written
            /\ call.icp[k].ratio = 0
  /\ call.kind = "relocalise"
       /\ (IcpDegenerate(call.icp[1]) \/ IcpNoValid(call.icp[1]))
     => pose_ = call.pre_pose

\* ceil(n / 10)
CeilTenth(n) == (n + TrimDivisor - 1) \div TrimDivisor

\* C9: the trimming step of an ICP iteration on a scan of n points masks
\* out exactly ceil(n/10) - 1 correspondences; none it masks has a smaller
\* residual than one it keeps; it leaves the mask of point 0 alone when
\* point 0 has residual zero and fewer than ceil(n/10) - 1 points have a
\* non-zero one.
C9_TailRejection ==
  tail.done =>
    /\ Cardinality(tail.disabled) = CeilTenth(Len(tail.residual)) - 1
    /\ \A i \in tail.disabled : \A k \in 1..Len(tail.residual) :
         tail.mask_out[k] => tail.residual[k] <= tail.residual[i + 1]
    /\ tail.residual[1] = 0
         /\ Cardinality({k \in 1..Len(tail.residual) : tail.residual[k] > 0})
              < CeilTenth(Len(tail.residual)) - 1
       => tail.mask_out[1] = tail.mask[1]

\* The largest and the smallest of a set of numbers.
MaxOf(S) == CHOOSE m \in S : \A s \in S : s <= m
MinOf(S) == CHOOSE m \in S : \A s \in S : m <= s

\* The world-frame points of ls under its current pose, and the
\* coordinates its bounding box spans (the box starts at the origin).
WorldNow == LaserScan_transform(ls.points_self_, ls.pose_)
WorldXs == {0} \cup {WorldNow[i].x : i \in 1..Len(WorldNow)}
WorldYs == {0} \cup {WorldNow[i].y : i \in 1..Len(WorldNow)}

\* The cache of ls is that of its current pose.
CacheIsCurrent ==
  /\ ls.points_world_ = WorldNow
  /\ ls.max_x_ = MaxOf(WorldXs) /\ ls.min_x_ = MinOf(WorldXs)
  /\ ls.max_y_ = MaxOf(WorldYs) /\ ls.min_y_ = MinOf(WorldYs)

\* What the last accessor returned is computed from the current pose.
ReturnIsCurrent ==
  /\ ls_ret.op = "get_pose" => ls_ret.val = ls.pose_
  /\ ls_ret.op = "get_points" => ls_ret.val = WorldNow
  /\ ls_ret.op = "get_max_x_in_world" => ls_ret.val = MaxOf(WorldXs)
  /\ ls_ret.op = "get_min_x_in_world" => ls_ret.val = MinOf(WorldXs)
  /\ ls_ret.op = "get_max_y_in_world" => ls_ret.val = MaxOf(WorldYs)
  /\ ls_ret.op = "get_min_y_in_world" => ls_ret.val = MinOf(WorldYs)

\* One step of the LaserScan object: the sensor-frame points stay, and a
\* step taken with the flag set that is not set_pose leaves the object.
ScanStepKeeps ==
  /\ ls'.points_self_ = ls.points_self_
  /\ ls.world_transformed_flag_ /\ ls_ret'.op # "set_pose" => ls' = ls

\* C10: under any interleaving of set_pose and the accessors, whenever the
\* flag is set the cache is that of the current pose and every accessor
\* returns data of the current pose; set_pose clears the flag; the
\* accessors recompute only when the flag is clear; the sensor-frame
\* points never change.
C10_LazyWorldCache ==
  /\ [](/\ ls.world_transformed_flag_ => CacheIsCurrent
        /\ ReturnIsCurrent
        /\ ls_ret.op = "set_pose" => ~ls.world_transformed_flag_)
  /\ [][ScanStepKeeps]_vars

\* A bounding-box accessor answered from a cache rebuilt after the pose of
\* a two-point scan was set to a rotated, translated pose.
C10_Witness ==
  /\ ls_ret.op = "get_max_y_in_world"
  /\ ls.world_transformed_flag_
  /\ Len(ls.points_self_) = 2
  /\ ls.pose_ = Pose2D(1, 1, 1)
  /\ ls_ret.val = 2

====
